---- MODULE Spec2Model ----
(***************************************************************************)
(* Model of curvefs::volume::BlockDeviceClientImpl as it is driven by      *)
(* curvefs/test/volume/block_device_client_test.cpp: the handle lifecycle  *)
(* (Init/Open/Close), the single-region Read/Write with their alignment to *)
(* IO_ALIGNED_BLOCK_SIZE, and the vectorized Readv/Writev whose parts run  *)
(* concurrently on the worker pool.  The backend is the (mocked)           *)
(* FileClient: each backend call is one step whose return value is chosen  *)
(* nondeterministically.                                                   *)
(***************************************************************************)
EXTENDS Integers, Sequences, FiniteSets, TLC

\* ------------------------------------------------------------------------
\* Program constants
\* ------------------------------------------------------------------------
BlockSize == 4096
NoFd == -1
ThreadNum == 10

\* ------------------------------------------------------------------------
\* Bounds of the model
\* ------------------------------------------------------------------------
\* highest block index a single-region request may start in
MaxBlock == 2
\* highest number of whole blocks added to a request's length
MaxLenBlocks == 2
\* highest number of parts of one vectorized call
MaxParts == 2
\* bytes of the caller's buffer beyond the length of the request
UserSlack == 1
\* highest number of backend Writes the storing backend takes
MaxEchoWrites == 2

\* in-block displacements: aligned, just past a boundary, mid-block (the
\* tests' 1000, and 1808 = 10000 - 2 * 4096), just before a boundary
Deltas == {0, 1, 1000, 1808, BlockSize - 1}
Offsets == {b * BlockSize + d : b \in 0..MaxBlock, d \in Deltas}
Lengths == {b * BlockSize + d : b \in 0..MaxLenBlocks, d \in Deltas}

\* parts of a vectorized call: part i lies in its own region, as the tests'
\* parts at i * 4MiB
PartStride == 1024 * BlockSize
VecDeltas == {0, 1}
VecLengths == {0, 2048, BlockSize, 2 * BlockSize + 1808}
PartsOfLen(n) == [1..n -> VecDeltas \X VecLengths]
RECURSIVE MkParts(_, _)
MkParts(f, n) ==
    IF n = 0 THEN <<>>
    ELSE Append(MkParts(f, n - 1),
                [offset |-> (n - 1) * PartStride + f[n][1], length |-> f[n][2]])

\* descriptors MockFileClient::Open returns in the tests
OpenRets == {-1, 0, 1, 10}
\* MockFileClient::Close: LIBCURVE_ERROR::OK or -LIBCURVE_ERROR::FAILED
CloseRets == {0, -1}
\* MockFileClient::Init: LIBCURVE_ERROR::OK or LIBCURVE_ERROR::FAILED
InitRets == {0, 1}
\* MockFileClient::Read/Write asked for n bytes: error, nothing, short,
\* complete, more than asked
IoRets(n) == {-1, 0, n - 1, n, n + 1}
\* the same inside a vectorized call: error, short, complete
VecIoRets(n) == {-1, n - 1, n}

\* fd_    the client's handle, NoFd when no file is open
\* call   the public call in progress or just returned
\* tasks  the Read/Write of each part of that call
\* opened what the caller knows to be open from the results it has seen: the
\*        descriptor of the last successful Open, NoFd after a successful
\*        Close (history; nothing reads it)
\* bufs   for each part: the caller's buffer (user), the scratch buffer of
\*        an unaligned Read/Write (scratch), and the bytes the part has
\*        handed to the backend's Write (written)
\* store  the file behind a backend that stores what is written: its bytes,
\*        its bytes before the last backend Write (before), the number of
\*        backend Writes it has taken (gen) and the request of the last
\*        one (last); the mocked backend of the tests never touches it
VARIABLES fd_, call, tasks, opened, bufs, store

vars == <<fd_, call, tasks, opened, bufs, store>>

\* ------------------------------------------------------------------------
\* Alignment
\* ------------------------------------------------------------------------
AlignDown(x) == (x \div BlockSize) * BlockSize
\* a bug: rounding up always moves to the next block
AlignUp_NextBlock(x) == (x \div BlockSize + 1) * BlockSize

AlignUp(x) == ((x + BlockSize - 1) \div BlockSize) * BlockSize

\* a bug: only the offset is looked at
IsAligned_OffsetOnly(offset, length) == offset % BlockSize = 0

IsAligned(offset, length) ==
    offset % BlockSize = 0 /\ length % BlockSize = 0

\* <<start, end>> of the aligned range enclosing [offset, offset + length)
CalcAlignRange(offset, length) == <<AlignDown(offset), AlignUp(offset + length)>>

\* one call on the FileClient; ret is filled in when it returns
BackendCall(op, fd, offset, length) ==
    [op |-> op, fd |-> fd, offset |-> offset, length |-> length, ret |-> 0]

\* a bug: the head and tail blocks are not singled out, every block of the
\* aligned range is read back
RECURSIVE ReadEveryBlock(_, _, _)
ReadEveryBlock(fd, from, to) ==
    IF from >= to THEN <<>>
    ELSE <<BackendCall("Read", fd, from, BlockSize)>>
         \o ReadEveryBlock(fd, from + BlockSize, to)

WritePadding_EveryBlock(fd, offset, length) ==
    ReadEveryBlock(fd, AlignDown(offset), AlignUp(offset + length))

\* a bug: adjacent head and tail blocks are read one by one
WritePadding_NoMerge(fd, offset, length) ==
    LET range == CalcAlignRange(offset, length)
        writeStart == range[1]
        writeEnd == range[2]
        head == IF offset # writeStart
                THEN <<BackendCall("Read", fd, writeStart, BlockSize)>>
                ELSE <<>>
        readStart == writeEnd - BlockSize
    IN  IF offset + length = writeEnd
        THEN head
        ELSE IF Len(head) = 1 /\ readStart = writeStart
        THEN head
        ELSE head \o <<BackendCall("Read", fd, readStart, BlockSize)>>

\* The boundary reads of an unaligned write: the head block when the write
\* does not start on a boundary, the tail block when it does not end on
\* one; one read when both are the same block, one read of two blocks when
\* they are adjacent.
WritePadding(fd, offset, length) ==
    LET range == CalcAlignRange(offset, length)
        writeStart == range[1]
        writeEnd == range[2]
        head == IF offset # writeStart
                THEN <<BackendCall("Read", fd, writeStart, BlockSize)>>
                ELSE <<>>
        readStart == writeEnd - BlockSize
    IN  IF offset + length = writeEnd
        THEN head
        ELSE IF Len(head) = 1 /\ readStart = writeStart
        THEN head
        ELSE IF Len(head) = 1 /\ readStart = writeStart + BlockSize
        THEN <<BackendCall("Read", fd, writeStart, 2 * BlockSize)>>
        ELSE head \o <<BackendCall("Read", fd, readStart, BlockSize)>>

\* a bug: the aligned length is taken from the length alone
ReadPlan_LengthOnly(fd, offset, length) ==
    <<BackendCall("Read", fd, AlignDown(offset), AlignUp(length))>>

\* The backend calls one Read makes, in order, when none of them fails.
ReadPlan(fd, offset, length) ==
    LET range == CalcAlignRange(offset, length)
    IN  <<BackendCall("Read", fd, range[1], range[2] - range[1])>>

\* a bug: every write reads its whole aligned range back before writing
WritePlan_ReadModifyWrite(fd, offset, length) ==
    LET range == CalcAlignRange(offset, length)
    IN  <<BackendCall("Read", fd, range[1], range[2] - range[1]),
          BackendCall("Write", fd, range[1], range[2] - range[1])>>

\* The backend calls one Write makes, in order, when none of them fails.
WritePlan(fd, offset, length) ==
    LET range == CalcAlignRange(offset, length)
    IN  IF IsAligned(offset, length)
        THEN <<BackendCall("Write", fd, offset, length)>>
        ELSE WritePadding(fd, offset, length)
             \o <<BackendCall("Write", fd, range[1], range[2] - range[1])>>

Plan(kind, fd, offset, length) ==
    IF kind = "Read" THEN ReadPlan(fd, offset, length)
                     ELSE WritePlan(fd, offset, length)

\* ------------------------------------------------------------------------
\* Buffers
\* ------------------------------------------------------------------------
\* The content of a buffer is kept by origin, not by value: a buffer is a
\* sequence of runs, the run [n, src, id, at] standing for the n bytes
\* number at, at + 1, ... of the source src:
\*   "caller"       the buffer the caller hands to a Write (id: which Write)
\*   "old"          what the caller's Read buffer held before the Read
\*   "backend"      what the mocked backend delivers for file position at
\*   "disk"         what the file held at position at to begin with
\*   "uninit"       a scratch buffer as allocated
\*   "unspecified"  what a failed backend Read leaves in its buffer
\* Buffers are kept normalised (no empty run, no two runs that continue one
\* another), so that two buffers are equal exactly when they agree byte by
\* byte.
Run(n, src, at) == [n |-> n, src |-> src, id |-> 0, at |-> at]
CallerRun(n, id) == [n |-> n, src |-> "caller", id |-> id, at |-> 0]

RECURSIVE BufLen(_)
BufLen(b) == IF b = <<>> THEN 0 ELSE Head(b).n + BufLen(Tail(b))

Continues(r, s) == r.src = s.src /\ r.id = s.id /\ s.at = r.at + r.n

RECURSIVE Norm(_)
Norm(b) ==
    IF b = <<>> THEN <<>>
    ELSE IF Head(b).n = 0 THEN Norm(Tail(b))
    ELSE LET rest == Norm(Tail(b))
         IN  IF rest # <<>> /\ Continues(Head(b), Head(rest))
             THEN <<[Head(b) EXCEPT !.n = Head(b).n + Head(rest).n]>>
                  \o Tail(rest)
             ELSE <<Head(b)>> \o rest

\* the first k bytes of b
RECURSIVE Take(_, _)
Take(b, k) ==
    IF k <= 0 \/ b = <<>> THEN <<>>
    ELSE IF Head(b).n <= k THEN <<Head(b)>> \o Take(Tail(b), k - Head(b).n)
    ELSE <<[Head(b) EXCEPT !.n = k]>>

\* b without its first k bytes
RECURSIVE Drop(_, _)
Drop(b, k) ==
    IF b = <<>> THEN <<>>
    ELSE IF k <= 0 THEN b
    ELSE IF Head(b).n <= k THEN Drop(Tail(b), k - Head(b).n)
    ELSE <<[Head(b) EXCEPT !.n = Head(b).n - k, !.at = Head(b).at + k]>>
         \o Tail(b)

\* the n bytes of b from index from on
Slice(b, from, n) == Norm(Take(Drop(b, from), n))

\* memcpy(b + dst, data, BufLen(data))
Overwrite(b, dst, data) ==
    Norm(Take(b, dst) \o data \o Drop(b, dst + BufLen(data)))

\* ------------------------------------------------------------------------
\* Data path
\* ------------------------------------------------------------------------
\* the file is large enough for every request of the model
DiskSize == (MaxBlock + MaxLenBlocks + 2) * BlockSize

NoStore ==
    [bytes |-> <<Run(DiskSize, "disk", 0)>>,
     before |-> <<Run(DiskSize, "disk", 0)>>,
     gen |-> 0,
     last |-> [offset |-> 0, length |-> 0, id |-> 0]]

\* the buffers of one part as the call is entered; id numbers the Write
NewBuf(kind, length, id) ==
    [user |-> IF kind = "Read"
              THEN <<Run(length + UserSlack, "old", 0)>>
              ELSE <<CallerRun(length + UserSlack, id)>>,
     scratch |-> <<>>,
     written |-> <<>>]

RECURSIVE NewBufs(_, _, _, _)
NewBufs(kind, parts, n, id) ==
    IF n = 0 THEN <<>>
    ELSE Append(NewBufs(kind, parts, n - 1, id),
                NewBuf(kind, parts[n].length, id))

\* an unaligned Read/Write that passes its checks allocates a scratch
\* buffer of alignLength bytes
AllocScratch(b, t, offset, length) ==
    LET range == CalcAlignRange(offset, length)
    IN  IF t.pc = "io" /\ ~IsAligned(offset, length)
        THEN [b EXCEPT !.scratch = <<Run(range[2] - range[1], "uninit", 0)>>]
        ELSE b

\* the bytes the tests' backend delivers to the Read c
MockData(c) == <<Run(c.length, "backend", c.offset)>>

\* a bug: the slice is taken from the start of the scratch buffer
CopyOut_FromStart(user, scratch, offset, length) ==
    Overwrite(user, 0, Slice(scratch, 0, length))

\* memcpy(buf, readBuffer + (offset - alignOffset), length)
CopyOut(user, scratch, offset, length) ==
    Overwrite(user, 0, Slice(scratch, offset - AlignDown(offset), length))

\* a bug: the caller's bytes are copied to the start of the scratch buffer
ComposeWrite_AtStart(scratch, user, offset, length) ==
    Overwrite(scratch, 0, Slice(user, 0, length))

\* memcpy(writeBuffer + (offset - alignOffset), buf, length)
ComposeWrite(scratch, user, offset, length) ==
    Overwrite(scratch, offset - AlignDown(offset), Slice(user, 0, length))

\* a bug: the scratch buffer is copied out whatever the backend returned
BufAfterRead_CopiesAnyway(b, kind, offset, length, c, r, data) ==
    LET got == IF r = c.length THEN data
               ELSE <<Run(c.length, "unspecified", 0)>>
    IN  IF kind = "Write"
        THEN [b EXCEPT !.scratch =
                 Overwrite(b.scratch, c.offset - AlignDown(offset), got)]
        ELSE IF IsAligned(offset, length)
        THEN [b EXCEPT !.user = Overwrite(b.user, 0, got)]
        ELSE [b EXCEPT !.scratch = got,
                       !.user = CopyOut(b.user, got, offset, length)]

\* a bug: every boundary read lands at the start of the scratch buffer
BufAfterRead_AtStart(b, kind, offset, length, c, r, data) ==
    LET got == IF r = c.length THEN data
               ELSE <<Run(c.length, "unspecified", 0)>>
    IN  IF kind = "Write"
        THEN [b EXCEPT !.scratch = Overwrite(b.scratch, 0, got)]
        ELSE IF IsAligned(offset, length)
        THEN [b EXCEPT !.user = Overwrite(b.user, 0, got)]
        ELSE [b EXCEPT !.scratch = got,
                       !.user = IF r = c.length
                                THEN CopyOut(b.user, got, offset, length)
                                ELSE b.user]

\* the buffers of a part after its backend Read c returned r with the bytes
\* data: a boundary read of a Write lands in the scratch buffer at its
\* place in the aligned range; an aligned Read reads into the caller's
\* buffer; an unaligned Read reads into the scratch buffer and, when the
\* read is complete, copies the requested slice out
BufAfterRead(b, kind, offset, length, c, r, data) ==
    LET got == IF r = c.length THEN data
               ELSE <<Run(c.length, "unspecified", 0)>>
    IN  IF kind = "Write"
        THEN [b EXCEPT !.scratch =
                 Overwrite(b.scratch, c.offset - AlignDown(offset), got)]
        ELSE IF IsAligned(offset, length)
        THEN [b EXCEPT !.user = Overwrite(b.user, 0, got)]
        ELSE [b EXCEPT !.scratch = got,
                       !.user = IF r = c.length
                                THEN CopyOut(b.user, got, offset, length)
                                ELSE b.user]

\* the buffers of a part as it issues its backend Write: an aligned Write
\* hands over the caller's buffer, an unaligned one the scratch buffer with
\* the caller's bytes copied in
BufAfterWrite(b, offset, length) ==
    IF IsAligned(offset, length)
    THEN [b EXCEPT !.written = Slice(b.user, 0, length)]
    ELSE LET w == ComposeWrite(b.scratch, b.user, offset, length)
         IN  [b EXCEPT !.scratch = w, !.written = w]

\* ------------------------------------------------------------------------
\* State
\* ------------------------------------------------------------------------
\* the public call in progress or last returned: its name and parts, the
\* handle it found, the backend calls Init/Open/Close issued (issued), and
\* its result: ok for the bool-valued calls, ret for the ssize_t-valued
MkCall(name, status, fd0, parts, issued, ok, ret) ==
    [name |-> name, status |-> status, fd0 |-> fd0, parts |-> parts,
     issued |-> issued, ok |-> ok, ret |-> ret]

\* the backend call c, returned with r
Returned(c, r) == [c EXCEPT !.ret = r]

\* one Read/Write of a part: queued, then issuing its backend calls (calls
\* holds those issued so far, each with the backend's return), then done
NewTask == [pc |-> "queued", calls |-> <<>>, res |-> 0]

RECURSIVE NewTasks(_)
NewTasks(n) == IF n = 0 THEN <<>> ELSE Append(NewTasks(n - 1), NewTask)

\* between two calls: nothing in progress, the last result taken
NoCall == MkCall("None", "idle", NoFd, <<>>, <<>>, TRUE, 0)

\* the state after SetUp(): Init has succeeded, no file is open
Init ==
    /\ fd_ = NoFd
    /\ call = NoCall
    /\ tasks = <<>>
    /\ opened = NoFd
    /\ bufs = <<>>
    /\ store = NoStore

Idle == call.status = "idle"

IsVec == call.name \in {"Readv", "Writev"}
Kind == IF call.name \in {"Read", "Readv"} THEN "Read" ELSE "Write"
Running == {i \in DOMAIN tasks : tasks[i].pc = "io"}

RECURSIVE SumRes(_, _)
SumRes(ts, n) == IF n = 0 THEN 0 ELSE ts[n].res + SumRes(ts, n - 1)

RECURSIVE SumLen(_, _)
SumLen(ps, n) == IF n = 0 THEN 0 ELSE ps[n].length + SumLen(ps, n - 1)

\* ------------------------------------------------------------------------
\* Handle lifecycle
\* ------------------------------------------------------------------------
\* a bug: the comparison with the sentinel is off by one
NotOpen_OffByOne(fd) == fd < NoFd

\* no file is open: the handle is the sentinel
NotOpen(fd) == fd < 0

\* bool Init(options): true iff the backend's Init returns OK
InitCall(r) ==
    /\ Idle
    /\ call' = MkCall("Init", "returned", fd_, <<>>,
                    <<Returned(BackendCall("Init", NoFd, 0, 0), r)>>, r = 0, 0)
    /\ tasks' = <<>>
    /\ bufs' = <<>>
    /\ UNCHANGED store
    /\ UNCHANGED <<fd_, opened>>

\* a bug: descriptor 0 is taken for a failure
Open_ZeroFails(d) ==
    /\ Idle
    /\ fd_' = IF d <= 0 THEN fd_ ELSE d
    /\ call' = MkCall("Open", "returned", fd_, <<>>,
                    <<Returned(BackendCall("Open", NoFd, 0, 0), d)>>, d > 0, 0)
    /\ tasks' = <<>>
    /\ bufs' = <<>>
    /\ UNCHANGED store
    /\ opened' = IF call'.ok THEN d ELSE opened

\* a bug: the backend's answer is stored before it is looked at
Open_StoresFailure(d) ==
    /\ Idle
    /\ fd_' = d
    /\ call' = MkCall("Open", "returned", fd_, <<>>,
                    <<Returned(BackendCall("Open", NoFd, 0, 0), d)>>, d >= 0, 0)
    /\ tasks' = <<>>
    /\ bufs' = <<>>
    /\ UNCHANGED store
    /\ opened' = IF call'.ok THEN d ELSE opened

\* bool Open(filename, owner): stores the descriptor unless it is negative
Open(d) ==
    /\ Idle
    /\ fd_' = IF d < 0 THEN fd_ ELSE d
    /\ call' = MkCall("Open", "returned", fd_, <<>>,
                    <<Returned(BackendCall("Open", NoFd, 0, 0), d)>>, d >= 0, 0)
    /\ tasks' = <<>>
    /\ bufs' = <<>>
    /\ UNCHANGED store
    /\ opened' = IF call'.ok THEN d ELSE opened

\* bool Close() with no file open: nothing to do
CloseNotOpen ==
    /\ Idle
    /\ NotOpen(fd_)
    /\ call' = MkCall("Close", "returned", fd_, <<>>, <<>>, TRUE, 0)
    /\ tasks' = <<>>
    /\ bufs' = <<>>
    /\ UNCHANGED store
    /\ opened' = NoFd
    /\ UNCHANGED fd_

\* a bug: the handle is reset whatever the backend reports
Close_AlwaysClears(r) ==
    /\ Idle
    /\ ~NotOpen(fd_)
    /\ fd_' = NoFd
    /\ call' = MkCall("Close", "returned", fd_, <<>>,
                      <<Returned(BackendCall("Close", fd_, 0, 0), r)>>, r = 0, 0)
    /\ tasks' = <<>>
    /\ bufs' = <<>>
    /\ UNCHANGED store
    /\ opened' = IF call'.ok THEN NoFd ELSE opened

\* bool Close() with a file open: one backend Close(fd_), the handle is
\* reset only when the backend reports OK
Close(r) ==
    /\ Idle
    /\ ~NotOpen(fd_)
    /\ fd_' = IF r = 0 THEN NoFd ELSE fd_
    /\ call' = MkCall("Close", "returned", fd_, <<>>,
                      <<Returned(BackendCall("Close", fd_, 0, 0), r)>>, r = 0, 0)
    /\ tasks' = <<>>
    /\ bufs' = <<>>
    /\ UNCHANGED store
    /\ opened' = IF call'.ok THEN NoFd ELSE opened

\* ------------------------------------------------------------------------
\* Read / Write / Readv / Writev
\* ------------------------------------------------------------------------
\* ssize_t Read(buf, offset, length) is entered on the caller's thread
Read(offset, length) ==
    /\ Idle
    /\ call' = MkCall("Read", "running", fd_,
                      <<[offset |-> offset, length |-> length]>>, <<>>, TRUE, 0)
    /\ tasks' = <<NewTask>>
    /\ bufs' = NewBufs("Read", call'.parts, 1, 0)
    /\ UNCHANGED <<fd_, opened, store>>

\* ssize_t Write(buf, offset, length) is entered on the caller's thread
Write(offset, length) ==
    /\ Idle
    /\ call' = MkCall("Write", "running", fd_,
                      <<[offset |-> offset, length |-> length]>>, <<>>, TRUE, 0)
    /\ tasks' = <<NewTask>>
    /\ bufs' = NewBufs("Write", call'.parts, 1, store.gen + 1)
    /\ UNCHANGED <<fd_, opened, store>>

\* ssize_t Readv(iov): every part is handed to the worker pool
Readv(parts) ==
    /\ Idle
    /\ call' = MkCall("Readv", "running", fd_, parts, <<>>, TRUE, 0)
    /\ tasks' = NewTasks(Len(parts))
    /\ bufs' = NewBufs("Read", parts, Len(parts), 0)
    /\ UNCHANGED <<fd_, opened, store>>

\* ssize_t Writev(iov): every part is handed to the worker pool
Writev(parts) ==
    /\ Idle
    /\ call' = MkCall("Writev", "running", fd_, parts, <<>>, TRUE, 0)
    /\ tasks' = NewTasks(Len(parts))
    /\ bufs' = NewBufs("Write", parts, Len(parts), store.gen + 1)
    /\ UNCHANGED <<fd_, opened, store>>

\* a bug: the empty request is answered before the handle is looked at
Precheck_LengthFirst(fd, length) ==
    IF length = 0 THEN [pc |-> "done", calls |-> <<>>, res |-> 0]
    ELSE IF NotOpen(fd) THEN [pc |-> "done", calls |-> <<>>, res |-> -1]
    ELSE [pc |-> "io", calls |-> <<>>, res |-> 0]

\* the checks Read/Write make before any backend call: -1 with no file
\* open, 0 for an empty request
Precheck(fd, length) ==
    IF NotOpen(fd) THEN [pc |-> "done", calls |-> <<>>, res |-> -1]
    ELSE IF length = 0 THEN [pc |-> "done", calls |-> <<>>, res |-> 0]
    ELSE [pc |-> "io", calls |-> <<>>, res |-> 0]

\* a part's Read/Write starts running (on a free worker when vectorized)
TaskRun(i) ==
    /\ call.status = "running"
    /\ i \in DOMAIN tasks
    /\ tasks[i].pc = "queued"
    /\ IsVec => Cardinality(Running) < ThreadNum
    /\ tasks' = [tasks EXCEPT ![i] = Precheck(fd_, call.parts[i].length)]
    /\ bufs' = [bufs EXCEPT ![i] =
                  AllocScratch(bufs[i], tasks'[i], call.parts[i].offset,
                               call.parts[i].length)]
    /\ UNCHANGED <<fd_, call, opened, store>>

\* the backend call part i issues next
NextIo(i) ==
    Plan(Kind, fd_, call.parts[i].offset, call.parts[i].length)
        [Len(tasks[i].calls) + 1]

IsLastIo(i) ==
    Len(tasks[i].calls) + 1 =
        Len(Plan(Kind, fd_, call.parts[i].offset, call.parts[i].length))

\* a bug: only a negative return counts as a failure
AfterIo_IgnoresShort(t, c, r, last, length) ==
    LET cs == Append(t.calls, Returned(c, r))
    IN  IF r < 0 THEN [pc |-> "done", calls |-> cs, res |-> -1]
        ELSE IF last THEN [pc |-> "done", calls |-> cs, res |-> length]
        ELSE [pc |-> "io", calls |-> cs, res |-> 0]

\* a bug: a return longer than asked for counts as complete
AfterIo_AcceptsLonger(t, c, r, last, length) ==
    LET cs == Append(t.calls, Returned(c, r))
    IN  IF r < c.length THEN [pc |-> "done", calls |-> cs, res |-> -1]
        ELSE IF last THEN [pc |-> "done", calls |-> cs, res |-> length]
        ELSE [pc |-> "io", calls |-> cs, res |-> 0]

\* a bug: a finished Read/Write reports the backend's aligned byte count
AfterIo_ReturnsAligned(t, c, r, last, length) ==
    LET cs == Append(t.calls, Returned(c, r))
    IN  IF r # c.length THEN [pc |-> "done", calls |-> cs, res |-> -1]
        ELSE IF last THEN [pc |-> "done", calls |-> cs, res |-> c.length]
        ELSE [pc |-> "io", calls |-> cs, res |-> 0]

\* the task after its backend call c returned r: any return other than the
\* length asked for ends the Read/Write with -1; the last call's complete
\* return ends it with the caller's length
AfterIo(t, c, r, last, length) ==
    LET cs == Append(t.calls, Returned(c, r))
    IN  IF r # c.length THEN [pc |-> "done", calls |-> cs, res |-> -1]
        ELSE IF last THEN [pc |-> "done", calls |-> cs, res |-> length]
        ELSE [pc |-> "io", calls |-> cs, res |-> 0]

RetsFor(n) == IF IsVec THEN VecIoRets(n) ELSE IoRets(n)

\* what the backend may return to the call part i issues next
RetsOf(i) == IF tasks[i].pc = "io" THEN RetsFor(NextIo(i).length) ELSE {}

\* AlignRead: one backend Read, returning r
AlignRead(i, r) ==
    /\ call.status = "running"
    /\ i \in DOMAIN tasks
    /\ tasks[i].pc = "io"
    /\ NextIo(i).op = "Read"
    /\ tasks' = [tasks EXCEPT ![i] =
                   AfterIo(tasks[i], NextIo(i), r, IsLastIo(i),
                           call.parts[i].length)]
    /\ bufs' = [bufs EXCEPT ![i] =
                  BufAfterRead(bufs[i], Kind, call.parts[i].offset,
                               call.parts[i].length, NextIo(i), r,
                               MockData(NextIo(i)))]
    /\ UNCHANGED <<fd_, call, opened, store>>

\* AlignWrite: one backend Write, returning r
AlignWrite(i, r) ==
    /\ call.status = "running"
    /\ i \in DOMAIN tasks
    /\ tasks[i].pc = "io"
    /\ NextIo(i).op = "Write"
    /\ tasks' = [tasks EXCEPT ![i] =
                   AfterIo(tasks[i], NextIo(i), r, IsLastIo(i),
                           call.parts[i].length)]
    /\ bufs' = [bufs EXCEPT ![i] =
                  BufAfterWrite(bufs[i], call.parts[i].offset,
                                call.parts[i].length)]
    /\ UNCHANGED <<fd_, call, opened, store>>

\* a bug: the last part's outcome overwrites the error of the earlier ones
Aggregate_LastPart(ts, vec) ==
    IF ~vec THEN ts[1].res
    ELSE IF ts # <<>> /\ ts[Len(ts)].res < 0 THEN -1
    ELSE SumRes(ts, Len(ts))

\* the result of the call once every part is done: the part's own result
\* for Read/Write; for Readv/Writev -1 if any part failed, else the sum
Aggregate(ts, vec) ==
    IF ~vec THEN ts[1].res
    ELSE IF \E i \in DOMAIN ts : ts[i].res < 0 THEN -1
    ELSE SumRes(ts, Len(ts))

\* a bug: the call returns as soon as one part has failed
Return_ShortCircuit ==
    /\ call.status = "running"
    /\ \/ \A i \in DOMAIN tasks : tasks[i].pc = "done"
       \/ \E i \in DOMAIN tasks : tasks[i].pc = "done" /\ tasks[i].res < 0
    /\ call' = [call EXCEPT !.status = "returned",
                            !.ret = Aggregate(tasks, IsVec)]
    /\ UNCHANGED <<fd_, tasks, opened, bufs, store>>

\* the call returns to its caller
Return ==
    /\ call.status = "running"
    /\ \A i \in DOMAIN tasks : tasks[i].pc = "done"
    /\ call' = [call EXCEPT !.status = "returned",
                            !.ret = Aggregate(tasks, IsVec)]
    /\ UNCHANGED <<fd_, tasks, opened, bufs, store>>

\* the caller has taken the result and is ready for its next call
Completed ==
    /\ call.status = "returned"
    /\ call' = NoCall
    /\ tasks' = <<>>
    /\ bufs' = <<>>
    /\ UNCHANGED store
    /\ UNCHANGED <<fd_, opened>>

Next ==
    \/ \E r \in InitRets : InitCall(r)
    \/ \E d \in OpenRets : Open(d)
    \/ CloseNotOpen
    \/ \E r \in CloseRets : Close(r)
    \/ \E o \in Offsets, l \in Lengths : Read(o, l)
    \/ \E o \in Offsets, l \in Lengths : Write(o, l)
    \/ \E n \in 0..MaxParts : \E f \in PartsOfLen(n) : Readv(MkParts(f, n))
    \/ \E n \in 0..MaxParts : \E f \in PartsOfLen(n) : Writev(MkParts(f, n))
    \/ \E i \in DOMAIN tasks : TaskRun(i)
    \/ \E i \in DOMAIN tasks : \E r \in RetsOf(i) : AlignRead(i, r)
    \/ \E i \in DOMAIN tasks : \E r \in RetsOf(i) : AlignWrite(i, r)
    \/ Return
    \/ Completed

Spec == Init /\ [][Next]_vars

\* ------------------------------------------------------------------------
\* The client over a backend that stores what is written and returns it on
\* read
\* ------------------------------------------------------------------------
EchoOffsets == {0, 1, BlockSize + 1808}
EchoLengths == {1, BlockSize, 2 * BlockSize + 1808}

\* a Write call, as long as the storing backend takes another Write
EchoWriteCall(offset, length) ==
    /\ store.gen < MaxEchoWrites
    /\ Write(offset, length)

\* one backend Read: the stored bytes of the range come back, all of them
EchoRead(i) ==
    /\ call.status = "running"
    /\ i \in DOMAIN tasks
    /\ tasks[i].pc = "io"
    /\ NextIo(i).op = "Read"
    /\ tasks' = [tasks EXCEPT ![i] =
                   AfterIo(tasks[i], NextIo(i), NextIo(i).length,
                           IsLastIo(i), call.parts[i].length)]
    /\ bufs' = [bufs EXCEPT ![i] =
                  BufAfterRead(bufs[i], Kind, call.parts[i].offset,
                               call.parts[i].length, NextIo(i),
                               NextIo(i).length,
                               Slice(store.bytes, NextIo(i).offset,
                                     NextIo(i).length))]
    /\ UNCHANGED <<fd_, call, opened, store>>

\* one backend Write: the bytes handed over are stored, all of them
EchoWrite(i) ==
    /\ call.status = "running"
    /\ i \in DOMAIN tasks
    /\ tasks[i].pc = "io"
    /\ NextIo(i).op = "Write"
    /\ tasks' = [tasks EXCEPT ![i] =
                   AfterIo(tasks[i], NextIo(i), NextIo(i).length,
                           IsLastIo(i), call.parts[i].length)]
    /\ bufs' = [bufs EXCEPT ![i] =
                  BufAfterWrite(bufs[i], call.parts[i].offset,
                                call.parts[i].length)]
    /\ store' = [bytes |-> Overwrite(store.bytes, NextIo(i).offset,
                                     bufs'[i].written),
                 before |-> store.bytes,
                 gen |-> store.gen + 1,
                 last |-> [offset |-> call.parts[i].offset,
                           length |-> call.parts[i].length,
                           id |-> store.gen + 1]]
    /\ UNCHANGED <<fd_, call, opened>>

NextEcho ==
    \/ \E d \in OpenRets : Open(d)
    \/ \E o \in EchoOffsets, l \in EchoLengths : EchoWriteCall(o, l)
    \/ \E o \in EchoOffsets, l \in EchoLengths : Read(o, l)
    \/ \E i \in DOMAIN tasks : TaskRun(i)
    \/ \E i \in DOMAIN tasks : EchoRead(i)
    \/ \E i \in DOMAIN tasks : EchoWrite(i)
    \/ Return
    \/ Completed

SpecEcho == Init /\ [][NextEcho]_vars

\* ------------------------------------------------------------------------
\* Vocabulary of the properties
\* ------------------------------------------------------------------------
HasReturned == call.status = "returned"

\* the aligned range of a request, from the definitions of the data model:
\* floor(offset / blockSize) * blockSize and the end rounded up
AlignOffsetOf(offset) == offset - (offset % BlockSize)
AlignEndOf(offset, length) ==
    IF (offset + length) % BlockSize = 0 THEN offset + length
    ELSE offset + length + BlockSize - ((offset + length) % BlockSize)
AlignLengthOf(offset, length) == AlignEndOf(offset, length) - AlignOffsetOf(offset)

Unaligned(offset, length) ==
    offset % BlockSize # 0 \/ (offset + length) % BlockSize # 0

ReadsIn(cs) == {k \in DOMAIN cs : cs[k].op = "Read"}
WritesIn(cs) == {k \in DOMAIN cs : cs[k].op = "Write"}
Complete(c) == c.ret = c.length

\* the parts of the current call that are Writes / Reads
WriteParts == IF call.name \in {"Write", "Writev"} THEN DOMAIN tasks ELSE {}
ReadParts == IF call.name \in {"Read", "Readv"} THEN DOMAIN tasks ELSE {}

\* ------------------------------------------------------------------------
\* C1: in every Write (single or as part of a Writev), a boundary read that
\* returns anything but the length asked of it ends the Write with a
\* negative result and no backend Write; at every moment, a backend Write
\* that has been issued comes after the boundary reads of its Write, all of
\* which returned their full length.
\* ------------------------------------------------------------------------
C1_ReadsValidateBeforeWrite ==
    \A i \in WriteParts :
        LET cs == tasks[i].calls
        IN  /\ (\E k \in ReadsIn(cs) : ~Complete(cs[k])) =>
                  /\ WritesIn(cs) = {}
                  /\ tasks[i].pc = "done"
                  /\ tasks[i].res < 0
                  /\ (HasReturned => call.ret < 0)
            /\ \A w \in WritesIn(cs) :
                  /\ w = Len(cs)
                  /\ \A k \in 1..(w - 1) : cs[k].op = "Read" /\ Complete(cs[k])
                  /\ Unaligned(call.parts[i].offset, call.parts[i].length)
                        => w > 1

\* a Write whose second boundary read came back short has returned
C1_Witness ==
    /\ HasReturned
    /\ call.name = "Write"
    /\ Len(tasks[1].calls) = 2
    /\ tasks[1].calls[1].op = "Read" /\ Complete(tasks[1].calls[1])
    /\ tasks[1].calls[2].op = "Read"
    /\ tasks[1].calls[2].ret = tasks[1].calls[2].length - 1
    /\ call.ret < 0

\* ------------------------------------------------------------------------
\* C2: while no file is open no backend Read or Write is issued; a Read or
\* Write entered in that state returns a negative value and the handle
\* stays the sentinel.
\* ------------------------------------------------------------------------
C2_NoBackendIoWithoutHandle ==
    (call.name \in {"Read", "Write", "Readv", "Writev"} /\ call.fd0 < 0) =>
        /\ \A i \in DOMAIN tasks : tasks[i].calls = <<>>
        /\ fd_ = NoFd
        /\ \A i \in DOMAIN tasks : tasks[i].pc = "done" => tasks[i].res < 0
        /\ (HasReturned /\ call.name \in {"Read", "Write"}) => call.ret < 0

\* a Write of one block entered with no file open has returned
C2_Witness ==
    /\ HasReturned
    /\ call.name = "Write"
    /\ call.fd0 < 0
    /\ call.parts[1].length = BlockSize
    /\ call.ret < 0

\* ------------------------------------------------------------------------
\* C3: a Readv/Writev on an open handle returns the sum of the parts'
\* lengths when every part returned its length, and a negative value when
\* at least one part failed, whatever the order the parts ran in.
\* ------------------------------------------------------------------------
C3_VectorResult ==
    (HasReturned /\ IsVec /\ call.fd0 >= 0) =>
        /\ (\A i \in DOMAIN tasks : tasks[i].res = call.parts[i].length)
              => call.ret = SumLen(call.parts, Len(call.parts))
        /\ (\E i \in DOMAIN tasks : tasks[i].res # call.parts[i].length)
              => call.ret < 0

\* a Writev has returned whose first part failed and whose last succeeded
C3_Witness ==
    /\ HasReturned
    /\ call.name = "Writev"
    /\ call.fd0 >= 0
    /\ Len(tasks) >= 2
    /\ tasks[1].res < 0
    /\ tasks[Len(tasks)].res = call.parts[Len(tasks)].length
    /\ call.parts[Len(tasks)].length > 0
    /\ call.ret < 0

\* ------------------------------------------------------------------------
\* C4: when a Readv/Writev returns, every part has run to its end exactly
\* once, also the parts that ran after another part had failed: there is
\* one finished Read/Write per part, none is queued or in flight, and each
\* has issued its backend calls once, in order, up to its end or to its
\* first failing call.
\* ------------------------------------------------------------------------
C4_NoShortCircuit ==
    (HasReturned /\ IsVec) =>
        /\ Len(tasks) = Len(call.parts)
        /\ \A i \in DOMAIN tasks :
              LET cs == tasks[i].calls
                  p == call.parts[i]
              IN  /\ tasks[i].pc = "done"
                  /\ (call.fd0 >= 0 /\ p.length > 0) => Len(cs) >= 1
                  /\ \A k \in DOMAIN cs :
                        /\ \A j \in DOMAIN cs :
                              (j # k) => <<cs[j].op, cs[j].offset>>
                                           # <<cs[k].op, cs[k].offset>>
                        /\ (k < Len(cs)) => Complete(cs[k])
                  /\ (cs # <<>> /\ Complete(cs[Len(cs)]))
                        => cs[Len(cs)].op = Kind

\* a Readv has returned in which every part's backend Read failed
C4_Witness ==
    /\ HasReturned
    /\ call.name = "Readv"
    /\ Len(tasks) = MaxParts
    /\ \A i \in DOMAIN tasks :
          /\ Len(tasks[i].calls) = 1
          /\ tasks[i].calls[1].ret = -1
    /\ call.ret < 0

C6_OpenAndDescriptor ==
    /\ (HasReturned /\ call.name = "Open") =>
          /\ call.ok <=> call.issued[1].ret >= 0
          /\ call.ok => fd_ = call.issued[1].ret
    /\ \A i \in DOMAIN tasks :
          /\ \A k \in DOMAIN tasks[i].calls : tasks[i].calls[k].fd = opened
          /\ (opened >= 0 /\ tasks[i].pc = "done" /\ call.parts[i].length > 0)
                => Len(tasks[i].calls) >= 1
    /\ (HasReturned /\ call.name = "Close") =>
          /\ ~call.ok => (call.issued[1].fd = opened /\ opened >= 0)
          /\ opened >= 0 => call.issued # <<>>

\* a Read on descriptor 0 has been answered by the backend
C6_Witness ==
    /\ HasReturned
    /\ call.name = "Read"
    /\ opened = 0
    /\ Len(tasks[1].calls) = 1
    /\ tasks[1].calls[1].fd = 0
    /\ call.ret = call.parts[1].length

\* ------------------------------------------------------------------------
\* C7: a Write of length > 0 on an open handle returns the caller's length
\* exactly when every boundary read returned its full length and the
\* backend Write returned alignLength; for every other return of the
\* backend Write (negative, shorter, longer) it returns a negative value;
\* no backend call is issued twice.
\* ------------------------------------------------------------------------
C7_WriteResult ==
    (HasReturned /\ call.name = "Write" /\ call.fd0 >= 0
                 /\ call.parts[1].length > 0) =>
        LET cs == tasks[1].calls
            p == call.parts[1]
            success == /\ \A k \in ReadsIn(cs) : Complete(cs[k])
                       /\ \E k \in WritesIn(cs) :
                             cs[k].ret = AlignLengthOf(p.offset, p.length)
        IN  /\ cs # <<>>
            /\ call.ret = p.length <=> success
            /\ ~success => call.ret < 0
            /\ Cardinality(WritesIn(cs)) <= 1
            /\ \A w \in WritesIn(cs) :
                  /\ cs[w].offset = AlignOffsetOf(p.offset)
                  /\ cs[w].length = AlignLengthOf(p.offset, p.length)
            /\ \A j \in DOMAIN cs, k \in DOMAIN cs :
                  (j # k) => <<cs[j].op, cs[j].offset>> # <<cs[k].op, cs[k].offset>>

\* an unaligned Write has returned its caller's length, smaller than the
\* aligned length the backend wrote
C7_Witness ==
    /\ HasReturned
    /\ call.name = "Write"
    /\ call.fd0 >= 0
    /\ call.parts[1].offset = 2 * BlockSize + 1808
    /\ call.parts[1].length = 2 * BlockSize + 1808
    /\ call.ret = call.parts[1].length
    /\ tasks[1].calls[Len(tasks[1].calls)].ret = 3 * BlockSize

\* ------------------------------------------------------------------------
\* C8: a Read of length > 0 on an open handle issues exactly one backend
\* Read, at (alignOffset, alignLength), and returns its length exactly when
\* the backend returned alignLength; any other return (negative, zero,
\* short, longer) makes it return a negative value, without a retry.
\* ------------------------------------------------------------------------
C8_ReadResult ==
    (HasReturned /\ call.name = "Read" /\ call.fd0 >= 0
                 /\ call.parts[1].length > 0) =>
        LET cs == tasks[1].calls
            p == call.parts[1]
        IN  /\ Len(cs) = 1
            /\ cs[1].op = "Read"
            /\ cs[1].offset = AlignOffsetOf(p.offset)
            /\ cs[1].length = AlignLengthOf(p.offset, p.length)
            /\ cs[1].ret = AlignLengthOf(p.offset, p.length)
                  => call.ret = p.length
            /\ cs[1].ret # AlignLengthOf(p.offset, p.length) => call.ret < 0

\* a Read whose backend Read returned 0 has failed
C8_Witness ==
    /\ HasReturned
    /\ call.name = "Read"
    /\ call.fd0 >= 0
    /\ Len(tasks[1].calls) = 1
    /\ tasks[1].calls[1].ret = 0
    /\ call.ret < 0

C10_Original ==
    (HasReturned /\ call.name = "Write" /\ call.fd0 >= 0
                 /\ call.parts[1].length > 0
                 /\ Unaligned(call.parts[1].offset, call.parts[1].length)) =>
        /\ Cardinality(ReadsIn(tasks[1].calls)) <= 2
        /\ Cardinality(WritesIn(tasks[1].calls)) = 1

\* C10 amended: an unaligned Write (length > 0, open handle) issues at most
\* 2 boundary reads and at most 1 backend write, whatever its length; it
\* issues the backend write exactly when every boundary read returned its
\* full length.
C10_Amplification ==
    (HasReturned /\ call.name = "Write" /\ call.fd0 >= 0
                 /\ call.parts[1].length > 0
                 /\ Unaligned(call.parts[1].offset, call.parts[1].length)) =>
        LET cs == tasks[1].calls
        IN  /\ Cardinality(ReadsIn(cs)) <= 2
            /\ Cardinality(ReadsIn(cs)) >= 1
            /\ Cardinality(WritesIn(cs)) <= 1
            /\ Cardinality(WritesIn(cs)) = 1
                  <=> \A k \in ReadsIn(cs) : Complete(cs[k])

\* a Write spanning MaxLenBlocks + 1 blocks has issued 2 boundary reads and
\* its backend write
C10_Witness ==
    /\ HasReturned
    /\ call.name = "Write"
    /\ call.fd0 >= 0
    /\ AlignLengthOf(call.parts[1].offset, call.parts[1].length)
          >= 3 * BlockSize
    /\ Cardinality(ReadsIn(tasks[1].calls)) = 2
    /\ Cardinality(WritesIn(tasks[1].calls)) = 1

\* ------------------------------------------------------------------------
\* C11: a Write (single or part of a Writev) of length > 0 on an open
\* handle whose offset and length are multiples of the block size issues no
\* backend read and exactly one backend Write, at (offset, length).
\* ------------------------------------------------------------------------
C11_AlignedWriteIsDirect ==
    \A i \in WriteParts :
        LET cs == tasks[i].calls
            p == call.parts[i]
        IN  (/\ tasks[i].pc = "done"
             /\ call.fd0 >= 0
             /\ p.length > 0
             /\ p.offset % BlockSize = 0
             /\ p.length % BlockSize = 0) =>
                /\ ReadsIn(cs) = {}
                /\ Len(cs) = 1
                /\ cs[1].op = "Write"
                /\ cs[1].offset = p.offset
                /\ cs[1].length = p.length

\* a Write of two whole blocks at offset 4096 has returned its length
C11_Witness ==
    /\ HasReturned
    /\ call.name = "Write"
    /\ call.fd0 >= 0
    /\ call.parts[1].offset = BlockSize
    /\ call.parts[1].length = 2 * BlockSize
    /\ Len(tasks[1].calls) = 1
    /\ call.ret = 2 * BlockSize

\* ------------------------------------------------------------------------
\* C13 as stated: the boundary reads of an unaligned Write are exactly a
\* head read at (alignOffset, 4096) iff offset > alignOffset and a tail read
\* at (alignOffset + alignLength - 4096, 4096) iff offset + length <
\* alignOffset + alignLength, one read when both are the same page, and no
\* other backend read.
\* ------------------------------------------------------------------------
HasHead(offset, length) == offset > AlignOffsetOf(offset)
HasTail(offset, length) == offset + length < AlignEndOf(offset, length)

StatedReads(offset, length) ==
    (IF HasHead(offset, length)
     THEN {<<AlignOffsetOf(offset), BlockSize>>} ELSE {})
    \cup
    (IF HasTail(offset, length)
     THEN {<<AlignEndOf(offset, length) - BlockSize, BlockSize>>} ELSE {})

C13_Original ==
    \A i \in WriteParts :
        LET cs == tasks[i].calls
            p == call.parts[i]
        IN  (WritesIn(cs) # {} /\ Unaligned(p.offset, p.length)) =>
                /\ {<<cs[k].offset, cs[k].length>> : k \in ReadsIn(cs)}
                      = StatedReads(p.offset, p.length)
                /\ Cardinality(ReadsIn(cs))
                      = Cardinality(StatedReads(p.offset, p.length))

\* C13 amended: as stated, except that when both a head and a tail read are
\* due and the tail page directly follows the head page (alignLength =
\* 8192), one read at (alignOffset, 8192) is issued in place of the two;
\* the head read comes before the tail read, and a Write that fails on a
\* boundary read has issued a prefix of these reads.
ExpectedReads(offset, length) ==
    LET ao == AlignOffsetOf(offset)
        ae == AlignEndOf(offset, length)
    IN  IF HasHead(offset, length) /\ HasTail(offset, length)
        THEN IF ae - ao = BlockSize THEN <<<<ao, BlockSize>>>>
             ELSE IF ae - ao = 2 * BlockSize THEN <<<<ao, 2 * BlockSize>>>>
             ELSE <<<<ao, BlockSize>>, <<ae - BlockSize, BlockSize>>>>
        ELSE IF HasHead(offset, length) THEN <<<<ao, BlockSize>>>>
        ELSE IF HasTail(offset, length) THEN <<<<ae - BlockSize, BlockSize>>>>
        ELSE <<>>

C13_BoundaryReads ==
    \A i \in WriteParts :
        LET cs == tasks[i].calls
            p == call.parts[i]
            exp == ExpectedReads(p.offset, p.length)
        IN  /\ \A k \in ReadsIn(cs) :
                  /\ k <= Len(exp)
                  /\ <<cs[k].offset, cs[k].length>> = exp[k]
            /\ WritesIn(cs) # {} => Cardinality(ReadsIn(cs)) = Len(exp)

\* Write(buf, 10000, 10000) has read (8192, 4096) and (16384, 4096) and then
\* written (8192, 12288)
C13_Witness ==
    /\ HasReturned
    /\ call.name = "Write"
    /\ call.parts[1].offset = 2 * BlockSize + 1808
    /\ call.parts[1].length = 2 * BlockSize + 1808
    /\ Len(tasks[1].calls) = 3
    /\ tasks[1].calls[1].offset = 2 * BlockSize
    /\ tasks[1].calls[2].offset = 4 * BlockSize
    /\ tasks[1].calls[3].op = "Write"
    /\ tasks[1].calls[3].length = 3 * BlockSize

\* ------------------------------------------------------------------------
\* C16: for every request of length > 0 the aligned range handed to the
\* backend (the Read of a Read, the Write of a Write) encloses the request,
\* starts on a block boundary, is a whole number of blocks long and is
\* minimal: it starts less than a block before the request and ends less
\* than a block after it.
\* ------------------------------------------------------------------------
C16_AlignedRange ==
    \A i \in DOMAIN tasks :
        LET cs == tasks[i].calls
            p == call.parts[i]
        IN  \A k \in DOMAIN cs :
                cs[k].op = Kind =>
                    /\ cs[k].offset <= p.offset
                    /\ cs[k].offset + cs[k].length >= p.offset + p.length
                    /\ cs[k].offset % BlockSize = 0
                    /\ cs[k].length % BlockSize = 0
                    /\ cs[k].offset > p.offset - BlockSize
                    /\ cs[k].offset + cs[k].length
                          < p.offset + p.length + BlockSize

\* Read(buf, 10000, 10000) has been served by the backend Read (8192, 12288)
C16_Witness ==
    /\ HasReturned
    /\ call.name = "Read"
    /\ call.parts[1].offset = 2 * BlockSize + 1808
    /\ call.parts[1].length = 2 * BlockSize + 1808
    /\ Len(tasks[1].calls) = 1
    /\ tasks[1].calls[1].offset = 2 * BlockSize
    /\ tasks[1].calls[1].length = 3 * BlockSize
    /\ call.ret = call.parts[1].length

\* ------------------------------------------------------------------------
\* C17: each part of a Readv/Writev on an open handle issues the backend
\* calls its (offset, length) issues as a standalone Read/Write: one Read
\* of the aligned range for a Read; for a Write the boundary reads, then
\* one Write of the aligned range (a part that fails stops after its
\* failing call).  In a Writev of N unaligned parts that each lie inside one
\* block and all succeed, N backend reads and N backend writes are issued,
\* each part's read before its write, and the result is the sum of the
\* callers' lengths.
\* ------------------------------------------------------------------------
StandaloneCalls(kind, offset, length) ==
    LET ao == AlignOffsetOf(offset)
        al == AlignLengthOf(offset, length)
        rs == ExpectedReads(offset, length)
    IN  IF length = 0 THEN <<>>
        ELSE IF kind = "Read" THEN <<<<"Read", ao, al>>>>
        ELSE [k \in 1..Len(rs) |-> <<"Read", rs[k][1], rs[k][2]>>]
             \o <<<<"Write", ao, al>>>>

InsideOneBlock(p) ==
    /\ p.length > 0
    /\ Unaligned(p.offset, p.length)
    /\ AlignLengthOf(p.offset, p.length) = BlockSize

RECURSIVE CountOps(_, _, _)
CountOps(ts, n, op) ==
    IF n = 0 THEN 0
    ELSE Cardinality({k \in DOMAIN ts[n].calls : ts[n].calls[k].op = op})
         + CountOps(ts, n - 1, op)

C17_PartsAsStandalone ==
    (HasReturned /\ IsVec /\ call.fd0 >= 0) =>
        /\ \A i \in DOMAIN tasks :
              LET cs == tasks[i].calls
                  p == call.parts[i]
                  exp == StandaloneCalls(Kind, p.offset, p.length)
              IN  /\ Len(cs) <= Len(exp)
                  /\ \A k \in DOMAIN cs :
                        <<cs[k].op, cs[k].offset, cs[k].length>> = exp[k]
                  /\ tasks[i].res = p.length => Len(cs) = Len(exp)
                  /\ \A k \in DOMAIN cs : cs[k].fd = call.fd0
        /\ (/\ call.name = "Writev"
            /\ \A i \in DOMAIN tasks :
                  /\ InsideOneBlock(call.parts[i])
                  /\ \A k \in DOMAIN tasks[i].calls :
                        Complete(tasks[i].calls[k])) =>
               /\ CountOps(tasks, Len(tasks), "Read") = Len(tasks)
               /\ CountOps(tasks, Len(tasks), "Write") = Len(tasks)
               /\ \A i \in DOMAIN tasks :
                     /\ tasks[i].calls[1].op = "Read"
                     /\ tasks[i].calls[2].op = "Write"
               /\ call.ret = SumLen(call.parts, Len(call.parts))

\* a Writev of at least two unaligned 2KiB parts has succeeded
C17_Witness ==
    /\ HasReturned
    /\ call.name = "Writev"
    /\ call.fd0 >= 0
    /\ Len(tasks) >= 2
    /\ \A i \in DOMAIN tasks :
          /\ call.parts[i].length = 2048
          /\ Len(tasks[i].calls) = 2
    /\ call.ret = Len(tasks) * 2048

\* ------------------------------------------------------------------------
\* C19: every backend Read and Write issued by Read, Write, Readv or Writev
\* has an offset that is a multiple of the block size and a length that is
\* a positive multiple of it, and lies inside the aligned range of the
\* request it serves.
\* ------------------------------------------------------------------------
C19_BackendIoIsAligned ==
    \A i \in DOMAIN tasks :
        LET p == call.parts[i]
        IN  \A k \in DOMAIN tasks[i].calls :
                LET c == tasks[i].calls[k]
                IN  /\ c.op \in {"Read", "Write"}
                    /\ c.offset % BlockSize = 0
                    /\ c.length > 0
                    /\ c.length % BlockSize = 0
                    /\ c.offset >= AlignOffsetOf(p.offset)
                    /\ c.offset + c.length <= AlignEndOf(p.offset, p.length)

\* a part of a Readv at an unaligned offset has been served by an aligned
\* backend Read
C19_Witness ==
    /\ HasReturned
    /\ call.name = "Readv"
    /\ \E i \in DOMAIN tasks :
          /\ call.parts[i].offset % BlockSize = 1
          /\ Len(tasks[i].calls) = 1
          /\ tasks[i].calls[1].offset % BlockSize = 0
          /\ tasks[i].res = call.parts[i].length

\* ------------------------------------------------------------------------
\* C20: the stored handle changes only in a successful Open, to the
\* descriptor the backend returned, and in a successful Close, to the
\* sentinel; every other step (a failed Open or Close, every step of a
\* Read, Write, Readv or Writev in any interleaving of the parts) leaves it
\* as it was.
\* ------------------------------------------------------------------------
C20_HandleFrame ==
    [][fd_' # fd_ =>
          /\ call.status = "idle"
          /\ call'.ok
          /\ \/ call'.name = "Open" /\ fd_' = call'.issued[1].ret
             \/ call'.name = "Close" /\ fd_' = NoFd]_vars

\* an Open has failed while descriptor 10 was open, and 10 is still open
C20_Witness ==
    /\ HasReturned
    /\ call.name = "Open"
    /\ ~call.ok
    /\ call.fd0 = 10
    /\ fd_ = 10

\* ------------------------------------------------------------------------
\* C14: in every successful unaligned Write, the alignLength bytes handed
\* to the backend Write at alignOffset hold, at each position p of the
\* aligned range, the caller's byte buf[p - offset] when offset <= p <
\* offset + length, and otherwise the byte the boundary read returned for
\* position p.
\* ------------------------------------------------------------------------
ExpectedWritten(offset, length, id) ==
    LET ao == AlignOffsetOf(offset)
        ae == AlignEndOf(offset, length)
        head == IF offset > ao
                THEN <<Run(offset - ao, "backend", ao)>> ELSE <<>>
        tail == IF offset + length < ae
                THEN <<Run(ae - (offset + length), "backend", offset + length)>>
                ELSE <<>>
    IN  head \o <<CallerRun(length, id)>> \o tail

C14_WriteBufferContent ==
    \A i \in WriteParts :
        LET p == call.parts[i]
        IN  (/\ tasks[i].pc = "done"
             /\ tasks[i].res = p.length
             /\ p.length > 0
             /\ Unaligned(p.offset, p.length)) =>
                \E id \in 1..(MaxEchoWrites + 1) :
                    /\ bufs[i].user = <<CallerRun(p.length + UserSlack, id)>>
                    /\ bufs[i].written =
                           ExpectedWritten(p.offset, p.length, id)
                    /\ BufLen(bufs[i].written) =
                           AlignLengthOf(p.offset, p.length)

\* Write(10000, 10000) has returned 10000: bytes of the head read, the
\* caller's bytes and bytes of the tail read were handed over
C14_Witness ==
    /\ HasReturned
    /\ call.name = "Write"
    /\ call.parts[1].offset = 2 * BlockSize + 1808
    /\ call.parts[1].length = 2 * BlockSize + 1808
    /\ call.ret = 2 * BlockSize + 1808
    /\ Len(bufs[1].written) = 3

\* ------------------------------------------------------------------------
\* C15: in every successful unaligned Read, the first length bytes of the
\* caller's buffer are the bytes at [offset - alignOffset, offset -
\* alignOffset + length) of the aligned backend read, and the caller's
\* bytes from index length on are unchanged.
\* ------------------------------------------------------------------------
C15_ReadSlice ==
    \A i \in ReadParts :
        LET p == call.parts[i]
        IN  (/\ tasks[i].pc = "done"
             /\ tasks[i].res = p.length
             /\ p.length > 0
             /\ Unaligned(p.offset, p.length)) =>
                /\ bufs[i].scratch =
                       <<Run(AlignLengthOf(p.offset, p.length), "backend",
                             AlignOffsetOf(p.offset))>>
                /\ bufs[i].user =
                       <<Run(p.length, "backend", p.offset),
                         Run(UserSlack, "old", p.length)>>

\* a Read of 2 * 4096 + 1808 bytes at offset 1000 has returned its length
C15_Witness ==
    /\ HasReturned
    /\ call.name = "Read"
    /\ call.parts[1].offset = 1000
    /\ call.parts[1].length = 2 * BlockSize + 1808
    /\ call.ret = 2 * BlockSize + 1808
    /\ bufs[1].user[1].src = "backend"

\* ------------------------------------------------------------------------
\* C18: when the backend read of an unaligned Read returns anything but
\* alignLength, the caller's buffer is left unchanged.
\* ------------------------------------------------------------------------
C18_FailedReadLeavesBuffer ==
    \A i \in ReadParts :
        LET p == call.parts[i]
            cs == tasks[i].calls
        IN  (/\ tasks[i].pc = "done"
             /\ p.length > 0
             /\ Unaligned(p.offset, p.length)
             /\ cs # <<>>
             /\ cs[1].ret # AlignLengthOf(p.offset, p.length)) =>
                /\ tasks[i].res = -1
                /\ bufs[i].user = <<Run(p.length + UserSlack, "old", 0)>>

\* Read(buf, 0, 1) has returned -1 after the backend returned 0 for 4096
C18_Witness ==
    /\ HasReturned
    /\ call.name = "Read"
    /\ call.parts[1].offset = 0
    /\ call.parts[1].length = 1
    /\ tasks[1].calls # <<>>
    /\ tasks[1].calls[1].ret = 0
    /\ call.ret = -1
    /\ bufs[1].user = <<Run(1 + UserSlack, "old", 0)>>

\* ------------------------------------------------------------------------
\* C12: on a backend that stores what is written and returns it on read, a
\* Read at the (offset, length > 0) of the last successful Write returns in
\* its first length bytes the bytes that Write was given, and a successful
\* Write leaves the stored bytes outside [offset, offset + length) as they
\* were before it.
\* ------------------------------------------------------------------------
ReadBack ==
    \A i \in ReadParts :
        LET p == call.parts[i]
        IN  (/\ tasks[i].pc = "done"
             /\ tasks[i].res = p.length
             /\ p.length > 0
             /\ store.gen > 0
             /\ p.offset = store.last.offset
             /\ p.length = store.last.length) =>
                bufs[i].user = <<CallerRun(p.length, store.last.id),
                                 Run(UserSlack, "old", p.length)>>

OutsideUnchanged ==
    \A i \in WriteParts :
        LET p == call.parts[i]
        IN  (/\ tasks[i].pc = "done"
             /\ tasks[i].res = p.length
             /\ p.length > 0) =>
                /\ store.last = [offset |-> p.offset, length |-> p.length,
                                 id |-> store.gen]
                /\ bufs[i].user = <<CallerRun(p.length + UserSlack, store.gen)>>
                /\ Take(store.bytes, p.offset) = Take(store.before, p.offset)
                /\ Drop(store.bytes, p.offset + p.length) =
                       Drop(store.before, p.offset + p.length)
                /\ Slice(store.bytes, p.offset, p.length) =
                       <<CallerRun(p.length, store.gen)>>

C12_RoundTrip == ReadBack /\ OutsideUnchanged

\* after a first Write, a Write of 2 * 4096 + 1808 bytes at offset 4096 +
\* 1808 was stored and a Read of the same range has returned its length
C12_Witness ==
    /\ HasReturned
    /\ call.name = "Read"
    /\ store.gen = 2
    /\ store.last.offset = BlockSize + 1808
    /\ store.last.length = 2 * BlockSize + 1808
    /\ call.parts[1] = [offset |-> BlockSize + 1808,
                        length |-> 2 * BlockSize + 1808]
    /\ call.ret = 2 * BlockSize + 1808

====
